---------------------------- MODULE Spec2Model ----------------------------
(***************************************************************************)
(* A model of SyncClient (src/src/SyncClient_Impl.h): the blocking stream  *)
(* adapter in front of the callback-driven AsyncClient connection handle.  *)
(*                                                                         *)
(* The adapter code is translated from SyncClient_Impl.h.  The handle      *)
(* (AsyncClient) is an external collaborator whose code is not part of the *)
(* sources: it is modelled from the contract the specification states for  *)
(* it (definitions named H...), and its events are the environment.        *)
(*                                                                         *)
(* Scheduling is cooperative and single-threaded: an API call runs         *)
(* atomically up to a yield point (delay()), where handle callbacks may    *)
(* run; `main' holds the suspended call, if any.                           *)
(***************************************************************************)
EXTENDS Integers, Sequences, FiniteSets, TLC

(***************************************************************************)
(* Bounds of the model.                                                    *)
(***************************************************************************)
MaxHandles == 2   \* AsyncClient objects the heap can hold at a time
MaxCap     == 2   \* largest txBufLen given to a constructor
MaxWin     == 2   \* largest send window the transport reports
MaxLen     == 3   \* largest len of one write(data, len) call
MaxData    == 3   \* bytes accepted by write() plus bytes received, per run
ShareHandles == 1 \* the heap, in the runs with two adapters
ShareData  == 2   \* the traffic, in the runs with two adapters

NULL  == 0        \* the null AsyncClient pointer / null _ref pointer
NoObj == "none"   \* a callback slot holding NULL (no adapter bound)

Adapters  == {"a", "b"}
Handles   == 1..MaxHandles
TxBufLens == 1..MaxCap

VARIABLES
  cli,       \* cli[a]: the fields of SyncClient object a
  hnd,       \* hnd[h]: the AsyncClient object h
  credit,    \* ghost: bytes read by the application minus bytes acked
  main,      \* the API call suspended at a yield point, or op = "idle"
  obs,       \* the operation that has just run, with its result
  nextByte,  \* bytes accepted by write() so far (a byte is its number)
  nextRx,    \* bytes delivered by the peer so far
  pool       \* how many AsyncClient objects the heap can hold at a time

vars == <<cli, hnd, credit, main, obs, nextByte, nextRx, pool>>

Min(x, y) == IF x < y THEN x ELSE y

\* F of the value v: v gets a local name and is evaluated once
With(v, F(_)) == F(v)

\* the bytes lo+1 .. lo+n, in order
Bytes(lo, n) == [i \in 1..n |-> lo + i]

\* s without its first n elements
Drop(s, n) == SubSeq(s, n + 1, Len(s))

IsPrefix(s, t) == Len(s) <= Len(t) /\ SubSeq(t, 1, Len(s)) = s

(***************************************************************************)
(* Object layouts.                                                         *)
(***************************************************************************)
\* a SyncClient that is not constructed (its storage holds nothing)
DeadAdapter ==
  [alive |-> FALSE, client |-> NULL,
   tx_buffer |-> <<>>, tx_buffer_head |-> 0, tx_buffer_size |-> 0,
   rx_buffer |-> <<>>, rx_buffer_head |-> 0, ref |-> NULL]

\* an AsyncClient slot of the pool that holds no object
FreeHandle ==
  [mem |-> "free", st |-> "closed", space |-> 0,
   onConnect |-> NoObj, onDisconnect |-> NoObj, onAck |-> NoObj,
   onData |-> NoObj, onTimeout |-> NoObj, ackPcb |-> TRUE,
   grant |-> 0, sent |-> <<>>, acc |-> <<>>, delivered |-> 0, acked |-> 0,
   rel |-> 0, shared |-> FALSE]

\* a newly allocated AsyncClient in connection state st
NewHandle(st, sp) == [FreeHandle EXCEPT !.mem = "live", !.st = st, !.space = sp]

\* The world an operation transforms: adapters, handles and the ghosts.
\* fault: the first undefined dereference the operation made, if any.
\* short: whether in its last pass of the drain loop, if it made one, the
\* transport took fewer bytes than it was offered.
World ==
  [ad |-> cli, hd |-> hnd, fault |-> "none", credit |-> credit,
   short |-> FALSE]

\* record the first undefined dereference
Fault(w, kind) == IF w.fault = "none" THEN [w EXCEPT !.fault = kind] ELSE w

(***************************************************************************)
(* The AsyncClient contract (specification section 6).                     *)
(***************************************************************************)
HConnected(hd, h) == hd[h].st = "connected"

HDisconnecting(hd, h) == hd[h].st = "disconnecting"

\* space(): how much can be sent now
HSpace(hd, h) == IF HConnected(hd, h) THEN hd[h].space ELSE 0

\* canSend(): whether anything can be sent now
HCanSend(hd, h) == HSpace(hd, h) > 0

\* write(bytes, len, COPY): the transport takes at most lim bytes of what
\* the window allows and returns the number taken
HWriteLen(hd, h, bytes, lim) == Min(Min(Len(bytes), HSpace(hd, h)), lim)

HWrite(hd, h, bytes, lim) ==
  LET n == HWriteLen(hd, h, bytes, lim) IN
  IF hd[h].mem = "live"
  THEN [hd EXCEPT ![h].sent = @ \o SubSeq(bytes, 1, n), ![h].space = @ - n]
  ELSE [hd EXCEPT ![h].space = @ - n]

\* ack(n): advance the advertised receive window by n bytes
HAck(hd, h, n) == [hd EXCEPT ![h].acked = Min(@ + n, MaxData + 1)]

\* delete c: the object is gone; a pointer still held to it dangles
HDelete(hd, h) == [hd EXCEPT ![h] = [FreeHandle EXCEPT !.rel = hd[h].rel]]

\* the lowest slot of the pool that holds no object and that no adapter
\* still points to; NULL when new (std::nothrow) has nothing to give
HAlloc(w) ==
  With({h \in 1..pool : w.hd[h].mem = "free"
                        /\ \A a \in Adapters : w.ad[a].client # h},
       LAMBDA free :
         IF free = {} THEN NULL ELSE CHOOSE h \in free : \A g \in free : h <= g)

Connected(w, a) ==
  w.ad[a].client # NULL /\ HConnected(w.hd, w.ad[a].client)


(***************************************************************************)
(* SyncClient: reference counter, callbacks and release.                   *)
(***************************************************************************)
\* ref(): the counter is allocated on first use (set to 0) and incremented.
\* r is *_ref, or NULL when _ref is the null pointer.  The build compiles
\* the operator= that leaves _ref alone, so a counter is never shared.
Ref(r) == IF r = NULL THEN 1 ELSE r + 1

\* unref(): the count after the decrement, -1 without a counter
Unref(r) == IF r # NULL THEN r - 1 ELSE -1

\* the value of _ref after unref(): the counter is deleted at 0
UnrefPtr(r) == IF r # NULL /\ r - 1 > 0 THEN r - 1 ELSE NULL

\* a changed _onDisconnect(): it drops the RX buffer as well
OnDisconnect_ClearsRx(w, a) ==
  [w EXCEPT !.ad[a].client = NULL,
            !.ad[a].tx_buffer = <<>>,
            !.ad[a].tx_buffer_head = 0,
            !.ad[a].rx_buffer = <<>>,
            !.ad[a].rx_buffer_head = 0]

\* _onDisconnect()
OnDisconnect(w, a) ==
  [w EXCEPT !.ad[a].client = NULL,
            !.ad[a].tx_buffer = <<>>,
            !.ad[a].tx_buffer_head = 0]

\* the lambda given to onDisconnect: obj->_onDisconnect(); delete c
DisconnectLambda(w, h) ==
  LET w1 == OnDisconnect(w, w.hd[h].onDisconnect)
  IN [w1 EXCEPT !.hd = HDelete(@, h)]

\* The handle drops its connection (abort(), close(true), or the peer is
\* gone) and runs its disconnect callback if one is registered.  A handle
\* without a connection, or a deleted one, runs nothing.
HDiscard(w, h) ==
  IF w.hd[h].mem = "live" /\ w.hd[h].st # "closed"
  THEN LET w1 == [w EXCEPT !.hd[h].st = "closed", !.hd[h].space = 0]
       IN IF w1.hd[h].onDisconnect # NoObj THEN DisconnectLambda(w1, h) ELSE w1
  ELSE w

\* abort() through a pointer: on a deleted object it is undefined (the
\* read of freed storage finds no connection to drop)
HAbort(w, h) ==
  IF w.hd[h].mem = "live" THEN HDiscard(w, h) ELSE Fault(w, "dangling")

\* ghost: one more release (detach and abort) of handle h, counted up to 2
Released(w, h) == [w EXCEPT !.hd[h].rel = Min(@ + 1, 2)]

\* _attachCallbacks_Disconnect(); through a dangling pointer the store
\* is undefined and registers nothing
AttachCallbacks_Disconnect(w, a) ==
  IF w.hd[w.ad[a].client].mem # "live" THEN Fault(w, "dangling")
  ELSE [w EXCEPT !.hd[w.ad[a].client].onDisconnect = a]

\* a changed _attachCallbacks_AfterConnected(): no ack callback
AttachCallbacks_AfterConnected_NoAck(w, a) ==
  IF w.hd[w.ad[a].client].mem # "live" THEN Fault(w, "dangling")
  ELSE [w EXCEPT !.hd[w.ad[a].client].onData = a,
                 !.hd[w.ad[a].client].onTimeout = a]

\* _attachCallbacks_AfterConnected()
AttachCallbacks_AfterConnected(w, a) ==
  IF w.hd[w.ad[a].client].mem # "live" THEN Fault(w, "dangling")
  ELSE [w EXCEPT !.hd[w.ad[a].client].onAck = a,
                 !.hd[w.ad[a].client].onData = a,
                 !.hd[w.ad[a].client].onTimeout = a]

\* _attachCallbacks()
AttachCallbacks(w, a) ==
  AttachCallbacks_AfterConnected(AttachCallbacks_Disconnect(w, a), a)

\* _release()
Release(w, a) ==
  LET c  == w.ad[a].client
      w1 == IF c # NULL
            THEN LET d == IF w.hd[c].mem # "live" THEN Fault(w, "dangling")
                          ELSE [w EXCEPT !.hd[c].onData = NoObj,
                                         !.hd[c].onAck = NoObj]
                 IN [HAbort(Released(d, c), c) EXCEPT !.ad[a].client = NULL]
            ELSE w
  IN [w1 EXCEPT !.ad[a].tx_buffer = <<>>, !.ad[a].tx_buffer_head = 0,
                !.ad[a].rx_buffer = <<>>, !.ad[a].rx_buffer_head = 0]

\* a changed _onConnect(c): the TX buffer is left as it is
OnConnect_KeepsTx(w, a, c) ==
  AttachCallbacks_AfterConnected([w EXCEPT !.ad[a].client = c], a)

\* _onConnect(c)
OnConnect(w, a, c) ==
  AttachCallbacks_AfterConnected(
    [w EXCEPT !.ad[a].client = c,
              !.ad[a].tx_buffer = <<>>,
              !.ad[a].tx_buffer_head = 0], a)

\* a changed _onData(): it does not call ackLater()
OnData_NoAckLater(w, a, data, oom) ==
  LET c == w.ad[a].client IN
  IF c = NULL THEN Fault(w, "null")
  ELSE IF oom THEN HAbort(w, c)
       ELSE [w EXCEPT !.ad[a].rx_buffer = @ \o data]

\* a changed _onData(): a chunk that cannot be stored is dropped and the
\* connection goes on
OnData_DropsChunk(w, a, data, oom) ==
  LET c == w.ad[a].client IN
  IF c = NULL THEN Fault(w, "null")
  ELSE LET w1 == [w EXCEPT !.hd[c].ackPcb = FALSE]
       IN IF oom THEN w1
          ELSE [w1 EXCEPT !.ad[a].rx_buffer = @ \o data]

\* _onData(data, len); oom: the insert throws for lack of memory
OnData(w, a, data, oom) ==
  LET c == w.ad[a].client IN
  IF c = NULL THEN Fault(w, "null")
  ELSE LET w1 == [w EXCEPT !.hd[c].ackPcb = FALSE]
       IN IF oom THEN HAbort(w1, c)
          ELSE [w1 EXCEPT !.ad[a].rx_buffer = @ \o data]

(***************************************************************************)
(* SyncClient: the drain helper.                                           *)
(***************************************************************************)
\* the unsent bytes of the TX buffer
Unsent(t) == Drop(t.tx_buffer, t.tx_buffer_head)

\* a changed pass: the head advances by what was offered to the transport,
\* not by what it took
SendStep_Skips(w, a, lim) ==
  LET t        == w.ad[a]
      c        == t.client
      sendable == HSpace(w.hd, c)
      avail    == Len(t.tx_buffer) - t.tx_buffer_head
  IN With(IF sendable < avail THEN sendable ELSE avail, LAMBDA available :
     With(SubSeq(Unsent(t), 1, available), LAMBDA chunk :
     With(HWriteLen(w.hd, c, chunk, lim), LAMBDA sent :
     With([w EXCEPT !.hd = HWrite(@, c, chunk, lim),
                    !.ad[a].tx_buffer_head = @ + available,
                    !.short = (sent # available)], LAMBDA w1 :
       IF sent # available
       THEN [w |-> w1, sent |-> sent, stop |-> TRUE]
       ELSE IF w1.ad[a].tx_buffer_head = Len(w1.ad[a].tx_buffer)
            THEN [w |-> [w1 EXCEPT !.ad[a].tx_buffer = <<>>,
                                   !.ad[a].tx_buffer_head = 0],
                  sent |-> sent, stop |-> FALSE]
            ELSE [w |-> w1, sent |-> sent, stop |-> FALSE]))))

\* a changed pass: the TX buffer is not reset when the head reaches the size
SendStep_NoReset(w, a, lim) ==
  LET t        == w.ad[a]
      c        == t.client
      sendable == HSpace(w.hd, c)
      avail    == Len(t.tx_buffer) - t.tx_buffer_head
  IN With(IF sendable < avail THEN sendable ELSE avail, LAMBDA available :
     With(SubSeq(Unsent(t), 1, available), LAMBDA chunk :
     With(HWriteLen(w.hd, c, chunk, lim), LAMBDA sent :
       [w |-> [w EXCEPT !.hd = HWrite(@, c, chunk, lim),
                        !.ad[a].tx_buffer_head = @ + sent,
                        !.short = (sent # available)],
        sent |-> sent, stop |-> sent # available])))

\* one pass of the body of the while loop of _sendBuffer(): the result is
\* the new world, the bytes the transport took and whether the loop breaks
SendStep(w, a, lim) ==
  LET t        == w.ad[a]
      c        == t.client
      sendable == HSpace(w.hd, c)
      avail    == Len(t.tx_buffer) - t.tx_buffer_head
  IN With(IF sendable < avail THEN sendable ELSE avail, LAMBDA available :
     With(SubSeq(Unsent(t), 1, available), LAMBDA chunk :
     With(HWriteLen(w.hd, c, chunk, lim), LAMBDA sent :
     With([w EXCEPT !.hd = HWrite(@, c, chunk, lim),
                    !.ad[a].tx_buffer_head = @ + sent,
                    !.short = (sent # available)], LAMBDA w1 :
       IF sent # available
       THEN [w |-> w1, sent |-> sent, stop |-> TRUE]
       ELSE IF w1.ad[a].tx_buffer_head = Len(w1.ad[a].tx_buffer)
            THEN [w |-> [w1 EXCEPT !.ad[a].tx_buffer = <<>>,
                                   !.ad[a].tx_buffer_head = 0],
                  sent |-> sent, stop |-> FALSE]
            ELSE [w |-> w1, sent |-> sent, stop |-> FALSE]))))

\* the condition of the while loop of _sendBuffer()
SendCond(w, a) ==
  /\ Connected(w, a)
  /\ HCanSend(w.hd, w.ad[a].client)
  /\ w.ad[a].tx_buffer_head < Len(w.ad[a].tx_buffer)

RECURSIVE SendLoop(_, _, _, _)
SendLoop(w, a, lim, sent_total) ==
  IF SendCond(w, a)
  THEN With(SendStep(w, a, lim), LAMBDA r :
         IF r.stop THEN [w |-> r.w, ret |-> sent_total + r.sent]
         ELSE SendLoop(r.w, a, lim, sent_total + r.sent))
  ELSE [w |-> w, ret |-> sent_total]

\* _sendBuffer(): [w |-> the world after it, ret |-> what it returns]
SendBuffer(w, a, lim) ==
  IF w.ad[a].client = NULL THEN [w |-> w, ret |-> 0]
  ELSE IF ~SendCond(w, a) THEN [w |-> w, ret |-> 0]
  ELSE SendLoop(w, a, lim, 0)


(***************************************************************************)
(* SyncClient: write and flush, run up to the next yield point.            *)
(***************************************************************************)
\* a changed computation: the free space does not count what is buffered
TxSpace_Whole(t) == t.tx_buffer_size

\* the free space of the TX buffer as write() computes it
TxSpace(t) ==
  LET buffered == Len(t.tx_buffer) - t.tx_buffer_head
  IN IF t.tx_buffer_size > buffered THEN t.tx_buffer_size - buffered ELSE 0

\* the condition of the yield loops of write() and flush()
WaitCanSend(w, a) == Connected(w, a) /\ ~HCanSend(w.hd, w.ad[a].client)

\* write(): copy min(space, len - written) bytes to the end of the TX
\* buffer.  Ghost: the bytes are accepted for the handle the adapter holds.
WriteCopy(w, a, data, written, space) ==
  With(Min(space, Len(data) - written), LAMBDA toCopy :
  With(SubSeq(data, written + 1, written + toCopy), LAMBDA piece :
    LET c  == w.ad[a].client
        w1 == [w EXCEPT !.ad[a].tx_buffer = @ \o piece]
    IN [w |-> IF c # NULL /\ w.hd[c].mem = "live"
              THEN [w1 EXCEPT !.hd[c].acc = @ \o piece] ELSE w1,
        written |-> written + toCopy]))

\* a changed write(): no drain before the return
WriteTail_NoSend(w, a, lim) == w

\* write(), the drain before the return
WriteTail(w, a, lim) ==
  IF Connected(w, a) /\ HCanSend(w.hd, w.ad[a].client)
  THEN SendBuffer(w, a, lim).w ELSE w

\* write() from one of its three places to its return or its next yield:
\*   "top"  the test of while (written < len)
\*   "woke" the statement after the yield loop
\*   "tail" the statements after the while loop
RECURSIVE WriteRun(_, _, _, _, _, _)

\* a changed write(): it does not drain the TX buffer after the yield loop
WriteWoke_NoSend(w, a, data, written, lim) ==
  IF ~Connected(w, a)
  THEN [w |-> w, written |-> written, yield |-> FALSE]
  ELSE With(TxSpace(w.ad[a]), LAMBDA space :
         IF space = 0
         THEN WriteRun(w, a, data, written, "tail", lim)
         ELSE With(WriteCopy(w, a, data, written, space), LAMBDA r :
                WriteRun(r.w, a, data, r.written, "top", lim)))

\* write(), after the yield loop of a full TX buffer
WriteWoke(w, a, data, written, lim) ==
  IF ~Connected(w, a)
  THEN [w |-> w, written |-> written, yield |-> FALSE]
  ELSE With(SendBuffer(w, a, lim).w, LAMBDA w1 :
       With(TxSpace(w1.ad[a]), LAMBDA space :
         IF space = 0
         THEN WriteRun(w1, a, data, written, "tail", lim)
         ELSE With(WriteCopy(w1, a, data, written, space), LAMBDA r :
                WriteRun(r.w, a, data, r.written, "top", lim))))

WriteRun(w, a, data, written, at, lim) ==
  IF at = "top"
  THEN IF written < Len(data)
       THEN With(TxSpace(w.ad[a]), LAMBDA space :
              IF space = 0
              THEN IF WaitCanSend(w, a)
                   THEN [w |-> w, written |-> written, yield |-> TRUE]
                   ELSE WriteRun(w, a, data, written, "woke", lim)
              ELSE With(WriteCopy(w, a, data, written, space), LAMBDA r :
                     WriteRun(r.w, a, data, r.written, "top", lim)))
       ELSE WriteRun(w, a, data, written, "tail", lim)
  ELSE IF at = "woke"
  THEN WriteWoke(w, a, data, written, lim)
  ELSE [w |-> WriteTail(w, a, lim), written |-> written, yield |-> FALSE]

\* a changed flush(): no test of _client after the yield loop
FlushWoke_NoNullTest(w, a, lim) ==
  With(SendBuffer(w, a, lim).w, LAMBDA w1 :
    [w |-> w1, ret |-> w1.ad[a].tx_buffer_head = Len(w1.ad[a].tx_buffer)])

\* a changed flush(): it reports success whatever is left unsent
FlushWoke_True(w, a, lim) ==
  IF w.ad[a].client = NULL
  THEN [w |-> w, ret |-> FALSE]
  ELSE [w |-> SendBuffer(w, a, lim).w, ret |-> TRUE]

\* flush(), after the yield loop
FlushWoke(w, a, lim) ==
  IF w.ad[a].client = NULL
  THEN [w |-> w, ret |-> FALSE]
  ELSE With(SendBuffer(w, a, lim).w, LAMBDA w1 :
         [w |-> w1,
          ret |-> w1.ad[a].tx_buffer_head = Len(w1.ad[a].tx_buffer)])

\* a changed condition: the loop does not end on disconnecting()
ConnectWait_NoDisconnecting(w, a) ==
  /\ w.ad[a].client # NULL
  /\ ~HConnected(w.hd, w.ad[a].client)

\* the condition of the yield loop of connect()
ConnectWait(w, a) ==
  /\ w.ad[a].client # NULL
  /\ ~HConnected(w.hd, w.ad[a].client)
  /\ ~HDisconnecting(w.hd, w.ad[a].client)

\* available()
Available(t) == Len(t.rx_buffer) - t.rx_buffer_head

\* peek()
Peek(t) ==
  IF t.rx_buffer_head >= Len(t.rx_buffer) THEN -1
  ELSE t.rx_buffer[t.rx_buffer_head + 1]

\* ghost: the application took n bytes out of an RX buffer
Consumed(w, n) == [w EXCEPT !.credit = @ + n]

\* _client->ack(n), with the ghost balance of read and acked bytes
Ack(w, h, n) == [w EXCEPT !.hd = HAck(@, h, n), !.credit = @ - n]

\* a changed read(data, len): it copies from the start of the RX buffer
ReadBuf_FromStart(w, a, len) ==
  LET t         == w.ad[a]
      available == Len(t.rx_buffer) - t.rx_buffer_head
  IN IF available = 0
     THEN [w |-> w, ret |-> -1, out |-> <<>>]
     ELSE With(Min(len, available), LAMBDA toRead :
          With([w EXCEPT !.ad[a].rx_buffer_head = @ + toRead], LAMBDA w1 :
          With(IF w1.ad[a].rx_buffer_head = Len(w1.ad[a].rx_buffer)
               THEN [w1 EXCEPT !.ad[a].rx_buffer = <<>>,
                               !.ad[a].rx_buffer_head = 0]
               ELSE w1, LAMBDA w2 :
          With(Consumed(w2, toRead), LAMBDA w3 :
            [w |-> IF toRead > 0 /\ Connected(w3, a)
                   THEN Ack(w3, w3.ad[a].client, toRead) ELSE w3,
             ret |-> toRead,
             out |-> SubSeq(t.rx_buffer, 0 + 1, 0 + toRead)]))))

\* a changed read(data, len): 0, not -1, when nothing is unread
ReadBuf_Zero(w, a, len) ==
  LET t         == w.ad[a]
      available == Len(t.rx_buffer) - t.rx_buffer_head
  IN IF available = 0
     THEN [w |-> w, ret |-> 0, out |-> <<>>]
     ELSE With(Min(len, available), LAMBDA toRead :
          With([w EXCEPT !.ad[a].rx_buffer_head = @ + toRead], LAMBDA w1 :
          With(IF w1.ad[a].rx_buffer_head = Len(w1.ad[a].rx_buffer)
               THEN [w1 EXCEPT !.ad[a].rx_buffer = <<>>,
                               !.ad[a].rx_buffer_head = 0]
               ELSE w1, LAMBDA w2 :
          With(Consumed(w2, toRead), LAMBDA w3 :
            [w |-> IF toRead > 0 /\ Connected(w3, a)
                   THEN Ack(w3, w3.ad[a].client, toRead) ELSE w3,
             ret |-> toRead,
             out |-> SubSeq(t.rx_buffer, t.rx_buffer_head + 1, t.rx_buffer_head + toRead)]))))

\* read(data, len): [w |-> the world after it, ret |-> what it returns,
\*                   out |-> the bytes copied to data]
ReadBuf(w, a, len) ==
  LET t         == w.ad[a]
      available == Len(t.rx_buffer) - t.rx_buffer_head
  IN IF available = 0
     THEN [w |-> w, ret |-> -1, out |-> <<>>]
     ELSE With(Min(len, available), LAMBDA toRead :
          With([w EXCEPT !.ad[a].rx_buffer_head = @ + toRead], LAMBDA w1 :
          With(IF w1.ad[a].rx_buffer_head = Len(w1.ad[a].rx_buffer)
               THEN [w1 EXCEPT !.ad[a].rx_buffer = <<>>,
                               !.ad[a].rx_buffer_head = 0]
               ELSE w1, LAMBDA w2 :
          With(Consumed(w2, toRead), LAMBDA w3 :
            [w |-> IF toRead > 0 /\ Connected(w3, a)
                   THEN Ack(w3, w3.ad[a].client, toRead) ELSE w3,
             ret |-> toRead,
             out |-> SubSeq(t.rx_buffer, t.rx_buffer_head + 1, t.rx_buffer_head + toRead)]))))

(***************************************************************************)
(* The state machine.  An operation (an API call up to its return or its   *)
(* next yield, or one handle event with the callback it runs) is one step; *)
(* it leaves in obs what it was and what it returned, and the step Observe *)
(* takes that result before anything else runs.                            *)
(***************************************************************************)
IdleMain == [op |-> "idle", a |-> NoObj, data |-> <<>>, written |-> 0]

Obs(op, a, val, arg, out, why, flt) ==
  [op |-> op, a |-> a, val |-> val, arg |-> arg, out |-> out, why |-> why,
   fault |-> flt]

NoObs == Obs("none", NoObj, 0, 0, <<>>, "", "none")

\* the operation op ran and left the world w
Ran(w, op, a, val, arg, out, why) ==
  /\ cli' = w.ad
  /\ hnd' = w.hd
  /\ credit' = w.credit
  /\ obs' = Obs(op, a, val, arg, out, why, w.fault)

\* no operation has a result pending
Quiet == obs = NoObs

Idle == Quiet /\ main.op = "idle"

\* bytes accepted by write() and bytes received so far
Traffic == nextByte + nextRx

\* What no later operation can tell apart is forgotten once the result
\* is taken: the content of a slot of the pool that holds no object (all of
\* it when no adapter points to the slot; all but the connection state a
\* dangling pointer reads, and the count of releases, otherwise), and an
\* AsyncClient without a connection that no adapter points to (it is
\* leaked: no event and no call reaches it again).
Tidy(hd, ad) ==
  [h \in Handles |->
     LET held == \E a \in Adapters : ad[a].client = h
     IN IF hd[h].mem = "free"
        THEN IF held
             THEN [FreeHandle EXCEPT !.st = hd[h].st,
                                     !.space = HSpace(hd, h),
                                     !.rel = hd[h].rel]
             ELSE FreeHandle
        ELSE IF hd[h].st = "closed" /\ ~held THEN FreeHandle ELSE hd[h]]

\* the ghost balance is kept up to 1
Observe ==
  /\ ~Quiet
  /\ obs' = NoObs
  /\ hnd' = Tidy(hnd, cli)
  /\ credit' = Min(credit, 1)
  /\ UNCHANGED <<cli, main, nextByte, nextRx, pool>>

\* SyncClient(txBufLen)
NewAdapter(txBufLen) ==
  [DeadAdapter EXCEPT !.alive = TRUE, !.tx_buffer_size = txBufLen,
                      !.ref = Ref(NULL)]

\* adapter a constructed by SyncClient(txBufLen), nothing else yet
Start ==
  /\ \E n \in TxBufLens :
       cli = [a \in Adapters |-> IF a = "a" THEN NewAdapter(n) ELSE DeadAdapter]
  /\ hnd = [h \in Handles |-> FreeHandle]
  /\ credit = 0
  /\ main = IdleMain
  /\ obs = NoObs
  /\ nextByte = 0
  /\ nextRx = 0

Init == Start /\ pool = MaxHandles

\* SyncClient(size_t txBufLen)
Construct(a, txBufLen) ==
  /\ Idle /\ ~cli[a].alive
  /\ Ran([World EXCEPT !.ad[a] = NewAdapter(txBufLen)],
         "construct", a, 0, 0, <<>>, "")
  /\ UNCHANGED <<main, nextByte, nextRx, pool>>

\* SyncClient(AsyncClient *client, size_t txBufLen), given a connected
\* handle (one a server accepted) whose send window is sp
ConstructWith(a, txBufLen, sp) ==
  /\ Idle /\ ~cli[a].alive
  /\ \E c \in {HAlloc(World)} :
       /\ c # NULL
       /\ \E w1 \in {[World EXCEPT
                        !.hd[c] = NewHandle("connected", sp),
                        !.ad[a] = [NewAdapter(txBufLen) EXCEPT !.client = c]]} :
            Ran(IF w1.ad[a].ref > 0 /\ c # NULL
                THEN AttachCallbacks(w1, a) ELSE w1,
                "construct", a, 0, 0, <<>>, "")
  /\ UNCHANGED <<main, nextByte, nextRx, pool>>

\* ~SyncClient()
Destroy(a) ==
  /\ Idle /\ cli[a].alive
  /\ LET count == Unref(cli[a].ref)
         w1    == [World EXCEPT !.ad[a].ref = UnrefPtr(@)]
         w2    == IF 0 = count THEN Release(w1, a) ELSE w1
     IN Ran([w2 EXCEPT !.ad[a] = DeadAdapter], "destroy", a, 0, 0, <<>>, "")
  /\ UNCHANGED <<main, nextByte, nextRx, pool>>

\* operator=(other) on adapter a: the body the build compiles
AssignFrom(w, a, other) ==
  With(IF w.ad[a].client # NULL
       THEN With(HAbort(Released(w, w.ad[a].client), w.ad[a].client), LAMBDA x :
              \* _client->free() after the abort
              [(IF x.ad[a].client = NULL THEN Fault(x, "null")
                ELSE IF x.hd[w.ad[a].client].mem # "live"
                     THEN Fault(x, "dangling") ELSE x)
               EXCEPT !.ad[a].client = NULL])
       ELSE w, LAMBDA w1 :
  With([w1 EXCEPT !.ad[a].tx_buffer_size = w1.ad[other].tx_buffer_size,
                  !.ad[a].tx_buffer = <<>>, !.ad[a].tx_buffer_head = 0,
                  !.ad[a].rx_buffer = <<>>, !.ad[a].rx_buffer_head = 0],
       LAMBDA w2 :
  With(IF w2.ad[other].client # NULL
       THEN [w2 EXCEPT !.ad[a].client = w2.ad[other].client] ELSE w2,
       LAMBDA w3 :
  With([w3 EXCEPT !.ad[a].tx_buffer = w3.ad[other].tx_buffer,
                  !.ad[a].tx_buffer_head = w3.ad[other].tx_buffer_head,
                  !.ad[a].rx_buffer = w3.ad[other].rx_buffer,
                  !.ad[a].rx_buffer_head = w3.ad[other].rx_buffer_head],
       LAMBDA w4 :
    IF w4.ad[a].client # NULL
    THEN With(AttachCallbacks(w4, a), LAMBDA w5 :
           IF w5.hd[w4.ad[a].client].mem = "live"
           THEN [w5 EXCEPT !.hd[w4.ad[a].client].shared = @ \/ a # other]
           ELSE w5)
    ELSE w4))))

Assign(a, other) ==
  /\ Idle /\ cli[a].alive /\ cli[other].alive
  /\ Ran(AssignFrom(World, a, other), "assign", a, 0, 0, <<>>, "")
  /\ UNCHANGED <<main, nextByte, nextRx, pool>>

\* connect(host, port) and _connect(ip, port) after the test of
\* connected(), up to the yield loop.  allocOk: new (std::nothrow) gives an
\* object; connOk: the handle's connect() starts an attempt.
ConnectFresh(w, a, allocOk, connOk) ==
  With(IF w.ad[a].client # NULL
       THEN [(IF w.hd[w.ad[a].client].mem = "live"
              THEN w ELSE Fault(w, "dangling"))
             EXCEPT !.hd = HDelete(@, w.ad[a].client), !.ad[a].client = NULL]
       ELSE w, LAMBDA w1 :
  With(IF allocOk THEN HAlloc(w1) ELSE NULL, LAMBDA c :
    IF c = NULL
    THEN [w |-> w1, ret |-> 0, yield |-> FALSE, why |-> "nomem"]
    ELSE
      With(AttachCallbacks_Disconnect(
             [w1 EXCEPT !.hd[c] = [NewHandle("closed", 0) EXCEPT !.onConnect = a],
                        !.ad[a].client = c], a), LAMBDA w3 :
        IF connOk
        THEN With([w3 EXCEPT !.hd[c].st = "connecting"], LAMBDA w4 :
               IF ConnectWait(w4, a)
               THEN [w |-> w4, ret |-> 0, yield |-> TRUE, why |-> ""]
               ELSE [w |-> w4, ret |-> IF Connected(w4, a) THEN 1 ELSE 0,
                     yield |-> FALSE, why |-> "done"])
        ELSE [w |-> w3, ret |-> 0, yield |-> FALSE, why |-> "refused"])))

\* a changed connect(): no test of connected() before the new attempt
ConnectStart_NoTest(w, a, allocOk, connOk) ==
  ConnectFresh(w, a, allocOk, connOk)

\* connect(host, port) and _connect(ip, port), up to the yield loop
ConnectStart(w, a, allocOk, connOk) ==
  IF Connected(w, a)
  THEN [w |-> w, ret |-> 0, yield |-> FALSE, why |-> "already"]
  ELSE ConnectFresh(w, a, allocOk, connOk)

ConnectCall(a, allocOk, connOk) ==
  /\ Idle /\ cli[a].alive
  /\ \E r \in {ConnectStart(World, a, allocOk, connOk)} :
       /\ main' = IF r.yield THEN [IdleMain EXCEPT !.op = "connect", !.a = a]
                  ELSE IdleMain
       /\ IF r.yield THEN Ran(r.w, "yield", a, 0, 0, <<>>, "")
          ELSE Ran(r.w, "connect", a, r.ret, 0, <<>>, r.why)
  /\ UNCHANGED <<nextByte, nextRx, pool>>

\* connect(): the yield loop ends and connect() returns connected()
ConnectResume ==
  /\ Quiet /\ main.op = "connect"
  /\ ~ConnectWait(World, main.a)
  /\ main' = IdleMain
  /\ Ran(World, "connect", main.a, IF Connected(World, main.a) THEN 1 ELSE 0,
         0, <<>>, "done")
  /\ UNCHANGED <<nextByte, nextRx, pool>>

\* write(data, len), up to its return or its first yield; the result is
\* marked "short" when the transport took fewer bytes than the last pass
\* of a drain offered it
WriteCall(a, len, lim) ==
  /\ Idle /\ cli[a].alive
  /\ IF cli[a].client = NULL \/ ~Connected(World, a)
     THEN /\ Ran(World, "write", a, 0, len, <<>>, "")
          /\ UNCHANGED <<main, nextByte>>
     ELSE \E r \in {WriteRun(World, a, Bytes(nextByte, len), 0, "top", lim)} :
            IF r.yield
            THEN /\ Ran(r.w, "yield", a, 0, 0, <<>>, "")
                 /\ main' = [op |-> "write", a |-> a,
                             data |-> Bytes(nextByte, len),
                             written |-> r.written]
                 /\ UNCHANGED nextByte
            ELSE /\ Ran(r.w, "write", a, r.written, len, <<>>,
                        IF r.w.short THEN "short" ELSE "")
                 /\ main' = IdleMain
                 /\ nextByte' = nextByte + r.written
  /\ UNCHANGED <<nextRx, pool>>

\* write(): the yield loop ends and write() runs on
WriteResume(lim) ==
  /\ Quiet /\ main.op = "write"
  /\ ~WaitCanSend(World, main.a)
  /\ \E r \in {WriteRun(World, main.a, main.data, main.written, "woke", lim)} :
       IF r.yield
       THEN /\ Ran(r.w, "yield", main.a, 0, 0, <<>>, "")
            /\ main' = [main EXCEPT !.written = r.written]
            /\ UNCHANGED nextByte
       ELSE /\ Ran(r.w, "write", main.a, r.written, Len(main.data), <<>>,
                   IF r.w.short THEN "short" ELSE "")
            /\ main' = IdleMain
            /\ nextByte' = nextByte + r.written
  /\ UNCHANGED <<nextRx, pool>>

\* flush(maxWaitMs), up to its return or its yield
FlushStart(w, a, lim) ==
  IF w.ad[a].client = NULL \/ ~Connected(w, a)
  THEN [w |-> w, ret |-> FALSE, yield |-> FALSE]
  ELSE IF w.ad[a].tx_buffer_head < Len(w.ad[a].tx_buffer)
  THEN IF WaitCanSend(w, a)
       THEN [w |-> w, ret |-> FALSE, yield |-> TRUE]
       ELSE With(FlushWoke(w, a, lim), LAMBDA r :
              [w |-> r.w, ret |-> r.ret, yield |-> FALSE])
  ELSE [w |-> w, ret |-> w.ad[a].tx_buffer_head = Len(w.ad[a].tx_buffer),
        yield |-> FALSE]

FlushCall(a, lim) ==
  /\ Idle /\ cli[a].alive
  /\ \E r \in {FlushStart(World, a, lim)} :
       IF r.yield
       THEN /\ Ran(r.w, "yield", a, 0, 0, <<>>, "")
            /\ main' = [IdleMain EXCEPT !.op = "flush", !.a = a]
       ELSE /\ Ran(r.w, "flush", a, IF r.ret THEN 1 ELSE 0, 0, <<>>, "")
            /\ UNCHANGED main
  /\ UNCHANGED <<nextByte, nextRx, pool>>

\* flush(): the yield loop ends and flush() runs on to its return
FlushResume(lim) ==
  /\ Quiet /\ main.op = "flush"
  /\ ~WaitCanSend(World, main.a)
  /\ \E r \in {FlushWoke(World, main.a, lim)} :
       Ran(r.w, "flush", main.a, IF r.ret THEN 1 ELSE 0, 0, <<>>, "")
  /\ main' = IdleMain
  /\ UNCHANGED <<nextByte, nextRx, pool>>

\* read(data, len)
Read(a, len) ==
  /\ Idle /\ cli[a].alive
  /\ \E r \in {ReadBuf(World, a, len)} :
       Ran(r.w, "read", a, r.ret, len, r.out, "")
  /\ UNCHANGED <<main, nextByte, nextRx, pool>>

\* read()
ReadByte(a) ==
  /\ Idle /\ cli[a].alive
  /\ \E r \in {ReadBuf(World, a, 1)} :
       Ran(r.w, "read1", a, IF r.ret # 1 THEN -1 ELSE r.out[1], 1, <<>>, "")
  /\ UNCHANGED <<main, nextByte, nextRx, pool>>

\* peek(), and available() in arg
PeekCall(a) ==
  /\ Idle /\ cli[a].alive
  /\ Ran(World, "peek", a, Peek(cli[a]), Available(cli[a]), <<>>, "")
  /\ UNCHANGED <<main, nextByte, nextRx, pool>>

\* stop(maxWaitMs): _client->close(true)
StopClient(w, a) ==
  LET c == w.ad[a].client
  IN IF c # NULL
     THEN IF w.hd[c].mem = "live" THEN HDiscard(w, c) ELSE Fault(w, "dangling")
     ELSE w

Stop(a) ==
  /\ Idle /\ cli[a].alive
  /\ Ran(StopClient(World, a), "stop", a, 1, 0, <<>>, "")
  /\ UNCHANGED <<main, nextByte, nextRx, pool>>

(***************************************************************************)
(* Handle events: the callbacks the AsyncClient runs at a yield point or   *)
(* between API calls.                                                      *)
(***************************************************************************)
Live(h) == hnd[h].mem = "live"

\* the attempt completes: the lambda given to onConnect runs _onConnect(c)
ConnectEvent(h, sp) ==
  /\ Quiet /\ Live(h) /\ hnd[h].st = "connecting"
  /\ LET w1 == [World EXCEPT !.hd[h].st = "connected", !.hd[h].space = sp]
     IN Ran(IF hnd[h].onConnect # NoObj
            THEN OnConnect(w1, hnd[h].onConnect, h) ELSE w1,
            "onConnect", hnd[h].onConnect, 0, h, <<>>, "")
  /\ UNCHANGED <<main, nextByte, nextRx, pool>>

\* sent bytes are acknowledged and the send window is sp: the lambda given
\* to onAck runs _sendBuffer()
AckEvent(h, sp, lim) ==
  /\ Quiet /\ Live(h) /\ hnd[h].st = "connected"
  /\ sp \in (IF hnd[h].grant = 0 THEN 1..MaxWin ELSE {hnd[h].grant})
  /\ LET w1 == [World EXCEPT !.hd[h].space = sp]
     IN Ran(IF hnd[h].onAck # NoObj
            THEN SendBuffer(w1, hnd[h].onAck, lim).w ELSE w1,
            "onAck", hnd[h].onAck, 0, h, <<>>, "")
  /\ UNCHANGED <<main, nextByte, nextRx, pool>>

\* n bytes arrive: the lambda given to onData runs _onData(data, len); the
\* handle acknowledges them itself unless the callback asked for ackLater()
DataArrives(w, h, data, oom) ==
  With(OnData([w EXCEPT !.hd[h].ackPcb = TRUE,
                        !.hd[h].delivered = @ + Len(data)],
              w.hd[h].onData, data, oom), LAMBDA w1 :
  With(IF w1.hd[h].mem = "live" /\ w1.hd[h].ackPcb
       THEN Ack(w1, h, Len(data)) ELSE w1, LAMBDA w2 :
    IF w2.hd[h].mem = "live" THEN [w2 EXCEPT !.hd[h].ackPcb = TRUE] ELSE w2))

DataEvent(h, n, oom) ==
  /\ Quiet /\ Live(h) /\ hnd[h].st = "connected" /\ hnd[h].onData # NoObj
  /\ Ran(DataArrives(World, h, Bytes(nextRx, n), oom),
         "onData", hnd[h].onData, 0, h, Bytes(nextRx, n),
         IF oom THEN "oom" ELSE "")
  /\ nextRx' = nextRx + n
  /\ UNCHANGED <<main, nextByte, pool>>

\* the inactivity timeout: the lambda given to onTimeout runs c->close(),
\* after which the handle reports disconnecting
TimeoutEvent(h) ==
  /\ Quiet /\ Live(h) /\ hnd[h].st = "connected" /\ hnd[h].onTimeout # NoObj
  /\ Ran([World EXCEPT !.hd[h].st = "disconnecting", !.hd[h].space = 0],
         "onTimeout", hnd[h].onTimeout, 0, h, <<>>, "")
  /\ UNCHANGED <<main, nextByte, nextRx, pool>>

\* the peer closes or refuses: the handle reports disconnecting
PeerClose(h) ==
  /\ Quiet /\ Live(h) /\ hnd[h].st \in {"connecting", "connected"}
  /\ Ran([World EXCEPT !.hd[h].st = "disconnecting", !.hd[h].space = 0],
         "peerClose", NoObj, 0, h, <<>>, "")
  /\ UNCHANGED <<main, nextByte, nextRx, pool>>

\* the connection is gone: the handle runs its disconnect callback
DisconnectEvent(h) ==
  /\ Quiet /\ Live(h)
  /\ hnd[h].st \in {"connecting", "connected", "disconnecting"}
  /\ Ran(HDiscard(World, h), "onDisconnect", hnd[h].onDisconnect, 0, h, <<>>, "")
  /\ UNCHANGED <<main, nextByte, nextRx, pool>>

\* A deleted AsyncClient that an adapter still points to: what a read
\* through the dangling pointer finds is undefined, so the storage may hold
\* any connection state and any window.
Scribble(h, st, sp) ==
  /\ Quiet /\ hnd[h].mem = "free"
  /\ \E a \in Adapters : cli[a].alive /\ cli[a].client = h
  /\ <<st, sp>> # <<hnd[h].st, hnd[h].space>>
  /\ hnd' = [hnd EXCEPT ![h].st = st, ![h].space = sp]
  /\ UNCHANGED <<cli, credit, main, obs, nextByte, nextRx, pool>>

Lims == 0..MaxWin

\* the operations of one adapter a, within a budget of traffic
Api(a, budget) ==
  \/ \E allocOk, connOk \in BOOLEAN : ConnectCall(a, allocOk, connOk)
  \/ \E len \in 0..MaxLen, lim \in Lims :
       Traffic + len <= budget /\ WriteCall(a, len, lim)
  \/ \E lim \in Lims : FlushCall(a, lim)
  \/ \E len \in 0..MaxData : Read(a, len)
  \/ ReadByte(a)
  \/ PeekCall(a)
  \/ Stop(a)

\* the suspended call runs on
Resume ==
  \/ ConnectResume
  \/ \E lim \in Lims : WriteResume(lim)
  \/ \E lim \in Lims : FlushResume(lim)

\* the events of the handles, within a budget of traffic
Event(budget) ==
  \/ \E h \in Handles, sp \in 0..MaxWin : ConnectEvent(h, sp)
  \/ \E h \in Handles, sp \in 1..MaxWin, lim \in Lims : AckEvent(h, sp, lim)
  \/ \E h \in Handles, n \in 1..MaxData, oom \in BOOLEAN :
       Traffic + n <= budget /\ DataEvent(h, n, oom)
  \/ \E h \in Handles : TimeoutEvent(h)
  \/ \E h \in Handles : PeerClose(h)
  \/ \E h \in Handles : DisconnectEvent(h)

\* One adapter, constructed by SyncClient(txBufLen), and its connections.
Next ==
  \/ Api("a", MaxData)
  \/ Resume
  \/ Event(MaxData)
  \/ Observe

Spec == Init /\ [][Next]_vars

\* Two adapters: construction, destruction and copy-assignment as well.
Life ==
  \/ \E a \in Adapters, n \in TxBufLens : Construct(a, n)
  \/ \E a \in Adapters, n \in TxBufLens, sp \in 0..MaxWin : ConstructWith(a, n, sp)
  \/ \E a \in Adapters : Destroy(a)
  \/ \E a, b \in Adapters : Assign(a, b)
  \/ \E h \in Handles, st \in {"closed", "connected"}, sp \in 0..MaxWin :
       Scribble(h, st, sp)

NextShare ==
  \/ \E a \in Adapters : Api(a, ShareData)
  \/ Resume
  \/ Event(ShareData)
  \/ Observe
  \/ Life

InitShare == Start /\ pool = ShareHandles

SpecShare == InitShare /\ [][NextShare]_vars

\* One adapter on a connection that stays connected, whose transport takes
\* all it is offered and whose send window reopens to the same amount
\* (grant) on every acknowledgment: the adapter as SyncClient(client,
\* txBufLen) leaves it.
InitWin ==
  /\ \E n \in TxBufLens, W \in 1..MaxWin, sp \in 0..MaxWin :
       /\ sp <= W
       /\ LET w0 == [ad |-> [a \in Adapters |-> DeadAdapter],
                     hd |-> [h \in Handles |-> FreeHandle],
                     fault |-> "none", credit |-> 0,
                     short |-> FALSE]
              w1 == [w0 EXCEPT
                       !.hd[1] = [NewHandle("connected", sp) EXCEPT !.grant = W],
                       !.ad["a"] = [NewAdapter(n) EXCEPT !.client = 1]]
              w2 == AttachCallbacks(w1, "a")
          IN cli = w2.ad /\ hnd = w2.hd
  /\ credit = 0
  /\ main = IdleMain
  /\ obs = NoObs
  /\ nextByte = 0
  /\ nextRx = 0
  /\ pool = MaxHandles

AckCycle == \E h \in Handles : AckEvent(h, hnd[h].grant, MaxWin)

NextWin ==
  \/ \E len \in 1..MaxLen :
       Traffic + len <= MaxData /\ WriteCall("a", len, MaxWin)
  \/ WriteResume(MaxWin)
  \/ FlushCall("a", MaxWin)
  \/ FlushResume(MaxWin)
  \/ AckCycle
  \/ Observe

\* the suspended call can run on: its yield loop has ended
Woken ==
  Quiet /\ main.op \in {"write", "flush"} /\ ~WaitCanSend(World, main.a)

\* a step of the main program has just run
MainRan == obs.op \in {"write", "flush", "yield"}

\* an acknowledgment has just come
AckRan == obs.op = "onAck"

\* Fairness: a result is taken (WF); delay() returns to the suspended
\* call, so a call that can run on again and again does run on (strong
\* fairness of WriteResume and FlushResume, stated on the states they
\* leave); and acknowledgments keep coming.
SpecWin ==
  /\ InitWin /\ [][NextWin]_vars
  /\ WF_vars(Observe)
  /\ []<>Woken => []<>MainRan
  /\ []<>AckRan

\* The same connection and fairness with one write() call and no call
\* after it: only acknowledgments follow.
NextDrain ==
  \/ \E len \in 1..MaxLen : nextByte = 0 /\ WriteCall("a", len, MaxWin)
  \/ WriteResume(MaxWin)
  \/ AckCycle
  \/ Observe

SpecDrain ==
  /\ InitWin /\ [][NextDrain]_vars
  /\ WF_vars(Observe)
  /\ []<>Woken => []<>MainRan
  /\ []<>AckRan

\* _sendBuffer() called on adapter a, as the ack callback, write() and
\* flush() call it; the transport takes at most lim bytes per write
SendBufferCall(a, lim) ==
  /\ Idle /\ cli[a].alive
  /\ \E r \in {SendBuffer(World, a, lim)} :
       Ran(r.w, "send", a, r.ret, lim, <<>>, "")
  /\ UNCHANGED <<main, nextByte, nextRx, pool>>

\* The states _sendBuffer() is called in: an adapter that is unbound (its
\* TX buffer is then empty), or bound to a handle that is connected or
\* disconnecting with some send window, holding n bytes of which the first
\* head are sent; the head is below the size unless both are 0, and the
\* unsent bytes are within the capacity.
InitSend ==
  /\ \E n \in 0..MaxLen, head \in 0..MaxLen, sp \in 0..MaxWin,
        st \in {"connected", "disconnecting"}, bound \in BOOLEAN :
       /\ head < n \/ (head = 0 /\ n = 0)
       /\ n - head <= MaxCap
       /\ ~bound => n = 0 /\ sp = 0 /\ st = "connected"
       /\ st = "disconnecting" => sp = 0
       /\ LET w0 == [ad |-> [a \in Adapters |-> DeadAdapter],
                     hd |-> [h \in Handles |-> FreeHandle],
                     fault |-> "none", credit |-> 0,
                     short |-> FALSE]
              w1 == [w0 EXCEPT
                       !.hd[1] = [NewHandle(st, sp) EXCEPT
                                    !.acc = Bytes(0, n), !.sent = Bytes(0, head)],
                       !.ad["a"] = [NewAdapter(MaxCap) EXCEPT
                                      !.client = 1,
                                      !.tx_buffer = Bytes(0, n),
                                      !.tx_buffer_head = head]]
              w2 == AttachCallbacks(w1, "a")
          IN IF bound
             THEN cli = w2.ad /\ hnd = w2.hd /\ nextByte = n
             ELSE /\ cli = [w0.ad EXCEPT !["a"] = NewAdapter(MaxCap)]
                  /\ hnd = w0.hd /\ nextByte = 0
  /\ credit = 0
  /\ main = IdleMain
  /\ obs = NoObs
  /\ nextRx = 0
  /\ pool = MaxHandles

NextSend ==
  \/ \E lim \in Lims : SendBufferCall("a", lim)
  \/ \E h \in Handles, sp \in 1..MaxWin, lim \in Lims : AckEvent(h, sp, lim)
  \/ \E h \in Handles : PeerClose(h)
  \/ Observe

SpecSend == InitSend /\ [][NextSend]_vars

(***************************************************************************)
(* Properties.  A step that runs an operation goes from a state where no   *)
(* result is pending (obs = NoObs) to one where obs' tells the operation,  *)
(* so obs'.op names the step and the unprimed variables are the state it   *)
(* ran in.                                                                 *)
(***************************************************************************)
\* the unread bytes of the RX buffer
Unread(t) == Drop(t.rx_buffer, t.rx_buffer_head)

\* the bytes the suspended write() of adapter a has copied so far
Pending(a) == IF main.op = "write" /\ main.a = a THEN main.written ELSE 0

\* the attempt of adapter a has ended without a connection
Failed(a) ==
  cli[a].client = NULL \/ HDisconnecting(hnd, cli[a].client)

Increasing(s) == \A i \in 1..Len(s) - 1 : s[i] < s[i + 1]

\* C1: the bytes handed to the transport (sent) are at every moment a
\* prefix of the bytes the write() calls accepted, in call order (acc); on
\* a connected handle every accepted byte is either sent or still queued,
\* in order and once, and the accepted bytes are exactly the last bytes the
\* calls have reported (or, for a suspended call, copied).
C1_SentIsPrefixOfAccepted ==
  /\ \A h \in Handles :
       Live(h) /\ ~hnd[h].shared => IsPrefix(hnd[h].sent, hnd[h].acc)
  /\ \A a \in Adapters :
       (/\ cli[a].alive
        /\ Connected(World, a)
        /\ Live(cli[a].client)
        /\ ~hnd[cli[a].client].shared)
       => LET h == hnd[cli[a].client]
          IN /\ h.acc = h.sent \o Unsent(cli[a])
             /\ h.acc = Bytes(nextByte + Pending(a) - Len(h.acc), Len(h.acc))

\* an acknowledgment drained bytes of two calls and one byte is still queued
C1_DrainAcrossCalls ==
  /\ obs.op = "onAck"
  /\ main.op = "idle"
  /\ nextByte = 3
  /\ \E h \in Handles :
       Live(h) /\ Len(hnd[h].sent) = 2 /\ Len(hnd[h].acc) = 3

\* C2: in every reachable state, of every adapter, the head of the TX
\* buffer is at most its size and the unsent length is at most the
\* capacity the adapter was given.
C2_TxBufferBounded ==
  \A a \in Adapters :
    cli[a].alive =>
      /\ cli[a].tx_buffer_head <= Len(cli[a].tx_buffer)
      /\ Len(cli[a].tx_buffer) - cli[a].tx_buffer_head <= cli[a].tx_buffer_size

\* a copy-assignment has given adapter b a TX buffer that is full
C2_FullAfterAssign ==
  /\ obs.op = "assign"
  /\ obs.a = "b"
  /\ cli["b"].alive
  /\ cli["b"].tx_buffer_size > 0
  /\ Len(Unsent(cli["b"])) = cli["b"].tx_buffer_size

\* the window an acknowledgment reopens is smaller than the capacity
SmallWindow ==
  /\ cli["a"].client # NULL
  /\ hnd[cli["a"].client].grant > 0
  /\ hnd[cli["a"].client].grant < cli["a"].tx_buffer_size

\* a write() of more bytes than the capacity has returned
LongWriteReturned ==
  /\ SmallWindow
  /\ obs.op = "write"
  /\ obs.arg > cli["a"].tx_buffer_size

\* C3: with a window smaller than the capacity reopening on every
\* acknowledgment, on a connection that stays connected, a write() of more
\* bytes than the capacity returns len, a suspended one does return, and
\* eventually all the bytes have been handed to the transport in order.
C3_LongWriteCompletes ==
  /\ [](LongWriteReturned => obs.val = obs.arg)
  /\ (SmallWindow /\ main.op = "write"
        /\ Len(main.data) > cli["a"].tx_buffer_size)
       ~> (LongWriteReturned /\ obs.val = obs.arg)
  /\ LongWriteReturned
       ~> (main.op = "idle" /\ \E h \in Handles : hnd[h].sent = Bytes(0, nextByte))

\* a write() of more than the capacity has returned len after it was
\* suspended and the transport has not yet been given all of it
C3_LongWriteDone ==
  /\ LongWriteReturned
  /\ obs.val = obs.arg
  /\ Len(hnd[cli["a"].client].sent) < nextByte

C5_ConnectReturns ==
  /\ [](obs.op = "connect" /\ obs.val = 1 => Connected(World, obs.a))
  /\ [](obs.op = "connect" /\ obs.why = "nomem"
          => obs.val = 0 /\ main.op = "idle" /\ cli[obs.a].client = NULL)
  /\ [](Quiet /\ main.op = "connect" /\ Failed(main.a)
          => ENABLED ConnectResume)
  /\ [][(main.op = "connect" /\ Failed(main.a)
           /\ obs'.op \in {"connect", "yield"})
        => obs'.op = "connect" /\ obs'.val = 0 /\ main'.op = "idle"]_vars

\* a suspended connect() has returned 0 after the disconnect callback
C5_AttemptFailed ==
  /\ obs.op = "connect"
  /\ obs.why = "done"
  /\ obs.val = 0
  /\ cli[obs.a].client = NULL

\* C6: the disconnect callback (run by the event or by stop()) clears the
\* connection reference and empties the TX buffer and changes nothing else
\* of the adapter; the reference stays cleared until a connect(); a write()
\* on an adapter that is not connected returns 0 and changes nothing; and
\* only read and the data callback change the unread bytes.
C6_AfterDisconnect ==
  [][\A a \in Adapters :
       /\ ((\/ obs'.op = "onDisconnect" /\ obs'.a = a
            \/ /\ obs'.op = "stop" /\ obs'.a = a
               /\ cli[a].client # NULL
               /\ hnd[cli[a].client].st # "closed")
           => cli'[a] = [cli[a] EXCEPT !.client = NULL,
                                       !.tx_buffer = <<>>,
                                       !.tx_buffer_head = 0])
       /\ (cli[a].client = NULL /\ cli'[a].client # NULL
           => obs'.op \in {"connect", "yield"})
       /\ ((obs'.op = "write" /\ obs'.a = a /\ main.op = "idle"
              /\ ~Connected(World, a))
           => /\ obs'.val = 0
              /\ cli' = cli /\ hnd' = hnd
              /\ main' = main /\ nextByte' = nextByte)
       /\ (obs'.op \notin {"read", "read1", "onData"}
           => Unread(cli'[a]) = Unread(cli[a]))
    ]_vars

\* after a disconnect a read returns two bytes received before it
C6_ReadAfterDisconnect ==
  /\ obs.op = "read"
  /\ cli[obs.a].client = NULL
  /\ Len(obs.out) = 2

\* C7: available() is size - head and never negative; the unread bytes are
\* in arrival order; read(buf, k) with 1 <= k <= available() returns k,
\* copies the k oldest unread bytes and leaves the rest; with
\* k > available() > 0 it returns available(), copies all the unread bytes
\* and leaves the RX buffer empty with head 0.
C7_ReadTakesOldest ==
  /\ [](\A a \in Adapters :
          /\ cli[a].rx_buffer_head <= Len(cli[a].rx_buffer)
          /\ Increasing(cli[a].rx_buffer))
  /\ [](obs.op = "peek"
          => obs.arg = Len(cli[obs.a].rx_buffer) - cli[obs.a].rx_buffer_head)
  /\ [][\A a \in Adapters :
          (obs'.op = "read" /\ obs'.a = a)
          => LET av == Available(cli[a])
                 k  == obs'.arg
             IN /\ (1 <= k /\ k <= av
                    => /\ obs'.val = k
                       /\ obs'.out = SubSeq(Unread(cli[a]), 1, k)
                       /\ Unread(cli'[a]) = Drop(Unread(cli[a]), k)
                       /\ Available(cli'[a]) = av - k)
                /\ (k > av /\ av > 0
                    => /\ obs'.val = av
                       /\ obs'.out = Unread(cli[a])
                       /\ cli'[a].rx_buffer = <<>>
                       /\ cli'[a].rx_buffer_head = 0)
       ]_vars

\* a second read(buf, 1) has returned the second byte of three
C7_ReadFromMiddle ==
  /\ obs.op = "read"
  /\ obs.arg = 1
  /\ obs.val = 1
  /\ obs.out = <<2>>
  /\ Available(cli[obs.a]) = 1

\* C8: with no unread byte, read(), read(buf, len) and peek() return -1,
\* are not suspended, acknowledge nothing and change nothing.
C8_EmptyReads ==
  [][\A a \in Adapters :
       (obs'.op \in {"read", "read1", "peek"} /\ obs'.a = a
          /\ Available(cli[a]) = 0)
       => /\ obs'.val = -1
          /\ main.op = "idle" /\ main' = main
          /\ cli' = cli /\ hnd' = hnd /\ credit' = credit
    ]_vars

\* read(buf, len) has returned -1 on a connected adapter that had read all
\* it had received
C8_EmptyAgain ==
  /\ obs.op = "read"
  /\ obs.val = -1
  /\ obs.arg > 0
  /\ nextRx > 0
  /\ Connected(World, obs.a)

\* C9: the data callback acknowledges nothing: it appends the bytes to the
\* RX buffer and changes nothing else of the adapter; a read acknowledges,
\* on a connected adapter, exactly the bytes it took and otherwise
\* nothing; no other step acknowledges; so the bytes acknowledged never
\* exceed the bytes read.
C9_AckOnlyByRead ==
  /\ [](credit >= 0)
  /\ [][\A a \in Adapters :
          /\ ((obs'.op = "onData" /\ obs'.a = a /\ obs'.why = "")
              => /\ \A h \in Handles : hnd'[h].acked = hnd[h].acked
                 /\ cli'[a] = [cli[a] EXCEPT !.rx_buffer = @ \o obs'.out])
          /\ ((obs'.op \in {"read", "read1"} /\ obs'.a = a)
              => LET n == Available(cli[a]) - Available(cli'[a])
                 IN \A h \in Handles :
                      hnd'[h].acked =
                        IF n > 0 /\ Connected(World, a) /\ h = cli[a].client
                        THEN hnd[h].acked + n ELSE hnd[h].acked)
       ]_vars
  /\ [][obs'.op \notin {"read", "read1"}
        => \A h \in Handles :
             hnd'[h].acked = hnd[h].acked \/ hnd'[h].acked = 0]_vars

\* a read has acknowledged the two bytes it took of the three delivered
C9_ReadAcked ==
  /\ obs.op = "read"
  /\ obs.val = 2
  /\ Connected(World, obs.a)
  /\ hnd[cli[obs.a].client].acked = 2
  /\ hnd[cli[obs.a].client].delivered = 3

\* C10: an AsyncClient is released (its callbacks detached and abort()
\* issued on it: the ghost rel counts this) at most once, and never while
\* a live adapter still points to it.
C10_ReleasedAtLastReference ==
  \A h \in Handles :
    /\ hnd[h].rel <= 1
    /\ hnd[h].rel = 1
         => \A a \in Adapters : ~(cli[a].alive /\ cli[a].client = h)

\* C11: the stored size of the TX buffer (the sent prefix before the head
\* and the unsent bytes) stays within the capacity the adapter was given,
\* however many bytes have been written.
C11_TxStoredBounded ==
  \A a \in Adapters :
    cli[a].alive => Len(cli[a].tx_buffer) <= cli[a].tx_buffer_size

\* the step ran the drain helper of adapter a once, or did nothing to drain
Drained(a) ==
  \E lim \in Lims :
    /\ cli' = SendBuffer(World, a, lim).w.ad
    /\ hnd' = SendBuffer(World, a, lim).w.hd

\* flush() of adapter a has told the truth about the TX buffer it leaves
FlushTruth(a) ==
  /\ obs'.val = 1 <=> Len(Unsent(cli'[a])) = 0
  /\ obs'.val = 1
       => \A h \in Handles :
            (cli'[a].client = h /\ hnd'[h].mem = "live" /\ ~hnd'[h].shared)
            => hnd'[h].sent = hnd'[h].acc

\* flush() is suspended only on a connected adapter with unsent bytes and
\* no send window
FlushWaits ==
  (obs'.op = "yield" /\ main.op = "idle" /\ main'.op = "flush")
  => /\ Len(Unsent(cli[main'.a])) > 0
     /\ WaitCanSend(World, main'.a)
     /\ cli' = cli /\ hnd' = hnd

\* flush() called on an adapter that is unbound or not connected returns
\* false and changes nothing
FlushUnconnected ==
  (obs'.op = "flush" /\ main.op = "idle" /\ ~Connected(World, obs'.a))
  => obs'.val = 0 /\ cli' = cli /\ hnd' = hnd

\* C12 as amended: flush() returns false, changing nothing, when the
\* adapter is unbound or not connected at the call, and also when the
\* disconnect callback cleared the connection reference while it waited;
\* otherwise it has waited only with unsent bytes and no send window, runs
\* the drain helper once and returns true exactly when no unsent byte is
\* left, and then every byte accepted on this connection is with the
\* transport.
C12_FlushResult ==
  /\ [][FlushWaits]_vars
  /\ [][FlushUnconnected]_vars
  /\ [][(obs'.op = "flush" /\ main.op = "flush")
        => IF cli[obs'.a].client = NULL
           THEN obs'.val = 0 /\ cli' = cli /\ hnd' = hnd
           ELSE Drained(obs'.a) /\ FlushTruth(obs'.a)]_vars
  /\ [][(obs'.op = "flush" /\ main.op = "idle" /\ Connected(World, obs'.a))
        => Drained(obs'.a) /\ FlushTruth(obs'.a)]_vars

\* C12 as stated: flush() returns false when the adapter is unbound or not
\* connected at the call; otherwise it waits only with unsent bytes, runs
\* the drain helper once and returns true exactly when the TX buffer has
\* no unsent byte at the return.
C12_FlushTrueIffDrained ==
  /\ [][FlushWaits]_vars
  /\ [][FlushUnconnected]_vars
  /\ [][(obs'.op = "flush"
           /\ (main.op = "flush" \/ Connected(World, obs'.a)))
        => Drained(obs'.a) /\ FlushTruth(obs'.a)]_vars

\* a flush() that was suspended has returned true with all three bytes of
\* the earlier write with the transport
C12_FlushedAll ==
  /\ obs.op = "flush"
  /\ obs.val = 1
  /\ nextByte = 3
  /\ cli[obs.a].client # NULL
  /\ hnd[cli[obs.a].client].sent = Bytes(0, 3)
  /\ hnd[cli[obs.a].client].space = 0

\* C13: connect() called on an adapter that is connected returns 0, is
\* not suspended and changes nothing: no AsyncClient is allocated, the
\* handles and their callbacks, the TX buffer and the RX buffer are as
\* they were.
C13_ConnectWhenConnected ==
  [][\A a \in Adapters :
       (/\ obs'.op = "connect" \/ (obs'.op = "yield" /\ main'.op = "connect")
        /\ obs'.a = a /\ main.op = "idle"
        /\ Connected(World, a))
       => /\ obs'.op = "connect"
          /\ obs'.val = 0
          /\ main' = main
          /\ cli' = cli /\ hnd' = hnd /\ credit' = credit
    ]_vars

\* connect() has returned 0 on a connected adapter that holds unsent and
\* unread bytes
C13_Reconnect ==
  /\ obs.op = "connect"
  /\ obs.why = "already"
  /\ Connected(World, obs.a)
  /\ Len(Unsent(cli[obs.a])) > 0
  /\ Len(Unread(cli[obs.a])) > 0

\* C14: a call of _sendBuffer() does nothing and returns 0 when the adapter
\* is unbound, not connected, without send window or without unsent bytes.
\* Otherwise it hands the transport at most min(unsent, window) bytes, the
\* first unsent ones, and stops when the transport took fewer than it was
\* offered (the transport takes obs.arg at most); the head advances by what
\* the transport took, the TX buffer is reset to size = head = 0 when the
\* head reaches the size, and the return value is the number of bytes taken.
C14_SendBufferStep ==
  [][obs'.op = "send"
     => LET a == obs'.a
            t == cli[a]
            c == t.client
            n == obs'.val
        IN IF \/ c = NULL
              \/ ~Connected(World, a)
              \/ ~HCanSend(hnd, c)
              \/ t.tx_buffer_head >= Len(t.tx_buffer)
           THEN n = 0 /\ cli' = cli /\ hnd' = hnd
           ELSE /\ n <= Min(Len(Unsent(t)), HSpace(hnd, c))
                /\ n = Min(Min(Len(Unsent(t)), HSpace(hnd, c)), obs'.arg)
                /\ hnd'[c].sent = hnd[c].sent \o SubSeq(Unsent(t), 1, n)
                /\ Len(hnd'[c].sent) - Len(hnd[c].sent) = n
                /\ hnd' = [hnd EXCEPT ![c].sent = hnd'[c].sent,
                                      ![c].space = @ - n]
                /\ cli' = [cli EXCEPT ![a] =
                             IF t.tx_buffer_head + n = Len(t.tx_buffer)
                             THEN [t EXCEPT !.tx_buffer = <<>>,
                                            !.tx_buffer_head = 0]
                             ELSE [t EXCEPT !.tx_buffer_head = @ + n]]
    ]_vars

\* _sendBuffer() has stopped after the transport took one byte of the two
\* it was offered, with send window left
C14_StoppedShort ==
  /\ obs.op = "send"
  /\ obs.val = 1
  /\ obs.arg = 1
  /\ Len(Unsent(cli[obs.a])) = 1
  /\ hnd[cli[obs.a].client].space = 1

\* C15: every acknowledgment callback runs the drain helper of the adapter
\* it is bound to; on a connection that stays connected and whose window
\* reopens on every acknowledgment, a write() suspended on a full TX buffer
\* returns, and the bytes left unsent when write() returns are all handed
\* to the transport, in order, with no further write() or flush() call.
C15_UnsentDrains ==
  /\ [][(obs'.op = "onAck" /\ obs'.a # NoObj)
        => \E sp \in 1..MaxWin, lim \in Lims :
             LET r == SendBuffer([World EXCEPT !.hd[obs'.arg].space = sp],
                                 obs'.a, lim).w
             IN cli' = r.ad /\ hnd' = r.hd]_vars
  /\ (main.op = "write") ~> (obs.op = "write")
  /\ (obs.op = "write" /\ Len(Unsent(cli["a"])) > 0)
       ~> (/\ Len(cli["a"].tx_buffer) = 0
           /\ cli["a"].client # NULL
           /\ hnd[cli["a"].client].sent = Bytes(0, nextByte))

\* a write() of three bytes has returned leaving two bytes unsent and no
\* send window
C15_LeftUnsent ==
  /\ obs.op = "write"
  /\ obs.val = 3
  /\ Len(Unsent(cli["a"])) = 2
  /\ ~HCanSend(hnd, cli["a"].client)

\* the four callbacks of handle h are bound to adapter a
AllBound(hd, h, a) ==
  /\ hd[h].onDisconnect = a
  /\ hd[h].onAck = a
  /\ hd[h].onData = a
  /\ hd[h].onTimeout = a

\* C16: the connect callback leaves the adapter bound to the connected
\* handle with an empty TX buffer and head 0, the rest of the adapter as it
\* was, and the ack, data and timeout callbacks attached next to the
\* disconnect callback registered by connect(); and whenever connect()
\* returns 1 the TX buffer is empty and the four callbacks of the handle
\* are bound to this adapter.
C16_ConnectedSetup ==
  /\ [][(obs'.op = "onConnect" /\ obs'.a # NoObj)
        => /\ hnd[obs'.arg].onDisconnect = obs'.a
           /\ HConnected(hnd', obs'.arg)
           /\ AllBound(hnd', obs'.arg, obs'.a)
           /\ cli' = [cli EXCEPT ![obs'.a].client = obs'.arg,
                                 ![obs'.a].tx_buffer = <<>>,
                                 ![obs'.a].tx_buffer_head = 0]]_vars
  /\ [](obs.op = "connect" /\ obs.val = 1
          => /\ cli[obs.a].tx_buffer = <<>>
             /\ cli[obs.a].tx_buffer_head = 0
             /\ cli[obs.a].client # NULL
             /\ AllBound(hnd, cli[obs.a].client, obs.a))

\* connect() has returned 1 on a new handle, after bytes were written on an
\* earlier connection, with received bytes in the RX buffer
C16_ConnectedAgain ==
  /\ obs.op = "connect"
  /\ obs.val = 1
  /\ nextByte > 0
  /\ hnd[cli[obs.a].client].acc = <<>>
  /\ Len(cli[obs.a].rx_buffer) > 0

\* C17: no adapter holds a non-null connection reference to an AsyncClient
\* that has been deleted by the disconnect callback or released by another
\* adapter: every reference an operation goes through is valid.
C17_ReferencesValid ==
  \A a \in Adapters :
    (cli[a].alive /\ cli[a].client # NULL)
    => /\ hnd[cli[a].client].mem = "live"
       /\ hnd[cli[a].client].rel = 0

\* the bytes of the RX buffer that handle h delivered
FromHandle(t, h) ==
  SelectSeq(t.rx_buffer, LAMBDA x : x > nextRx - hnd[h].delivered)

\* C18: when the append fails for lack of memory in the data callback, the
\* RX buffer is exactly as it was and the connection is aborted in the same
\* step (the handle is gone, the adapter unbound), so no later chunk of
\* this connection follows the lost one; a chunk that is stored is stored
\* whole; and the bytes the adapter holds of its connection are, in order
\* and without a gap, the latest bytes the connection delivered.
C18_NoPartialAppend ==
  /\ [][(obs'.op = "onData" /\ obs'.why = "oom")
        => /\ cli'[obs'.a].rx_buffer = cli[obs'.a].rx_buffer
           /\ cli'[obs'.a].rx_buffer_head = cli[obs'.a].rx_buffer_head
           /\ cli'[obs'.a].client = NULL
           /\ hnd'[obs'.arg].mem # "live"
           /\ ~HConnected(hnd', obs'.arg)]_vars
  /\ [][(obs'.op = "onData" /\ obs'.why # "oom")
        => /\ cli'[obs'.a].rx_buffer = cli[obs'.a].rx_buffer \o obs'.out
           /\ cli'[obs'.a].rx_buffer_head = cli[obs'.a].rx_buffer_head]_vars
  /\ [](\A a \in Adapters :
          (cli[a].alive /\ Connected(World, a))
          => /\ Increasing(cli[a].rx_buffer)
             /\ LET mine == FromHandle(cli[a], cli[a].client)
                IN mine = Bytes(nextRx - Len(mine), Len(mine)))

\* a chunk was lost for lack of memory on an adapter that holds bytes of
\* the same connection, one of them read
C18_ChunkLost ==
  /\ obs.op = "onData"
  /\ obs.why = "oom"
  /\ nextRx = 3
  /\ cli[obs.a].rx_buffer = <<1, 2>>
  /\ cli[obs.a].rx_buffer_head = 1
  /\ cli[obs.a].client = NULL

\* C19: on every AsyncClient the bytes acknowledged through ack() never
\* exceed the bytes it delivered through its data callback.
C19_AckedWithinDelivered ==
  \A h \in Handles : Live(h) => hnd[h].acked <= hnd[h].delivered

\* C20: whenever write() has returned on an adapter that is connected,
\* the TX buffer holds no unsent byte, or the send window is used up, or
\* the transport took fewer bytes than the last pass of the drain offered.
C20_WorkConserving ==
  (obs.op = "write" /\ Connected(World, obs.a))
  => \/ Len(Unsent(cli[obs.a])) = 0
     \/ ~HCanSend(hnd, cli[obs.a].client)
     \/ obs.why = "short"

\* write() has returned leaving an unsent byte and send window, the
\* transport having taken one byte of the two offered
C20_TransportTookLess ==
  /\ obs.op = "write"
  /\ obs.why = "short"
  /\ Connected(World, obs.a)
  /\ Len(Unsent(cli[obs.a])) = 1
  /\ Len(hnd[cli[obs.a].client].sent) = 1
  /\ HCanSend(hnd, cli[obs.a].client)

=============================================================================
